---- MODULE Spec2Model ----
(***************************************************************************)
(* Batch orchestrator of Cropify (src/src/hooks/useBatchProcessor.ts).     *)
(*                                                                         *)
(* The hook owns the React state `tasks` and `isProcessing` and the refs   *)
(* `processingRef` and `abortControllerRef`.  Every call of executeBatch   *)
(* is an asynchronous activation (a "run") that keeps its own snapshot of  *)
(* the task list and suspends at the awaits of processImage and at the     *)
(* inter-task delay.  JavaScript runs each synchronous segment to its next *)
(* await without interruption, so one action is one such segment.  The     *)
(* only segment cut in two is the start of a run: the step that replaces   *)
(* the task list (setTasks(newTasks)) and the step that enters the loop,   *)
(* with no other step allowed between them, so that every setTasks call is *)
(* a visible change of the list.                                           *)
(***************************************************************************)
EXTENDS Integers, Sequences, FiniteSets, TLC

\* ---------------------------------------------------------------- bounds
NumImages == 2

MaxRuns == 2

MaxCalls == 3

\* ------------------------------------------------------------ the inputs
ImageIds == 1..NumImages

\* the ordered, non-empty image lists a caller passes (filteredImages keeps
\* the order of images)
ListOf(S) ==
  CHOOSE s \in [1..Cardinality(S) -> S] : \A i, j \in 1..Cardinality(S) : i < j => s[i] < s[j]

ImageLists == { ListOf(S) : S \in (SUBSET ImageIds) \ {{}} }

\* crop geometries, abstracted to tokens (the batch-wide default passed by
\* the caller, and the geometry saved on an image)
CropParamValues == {"cpA", "cpB"}

NoCropParams == "none"

\* image.cropParams: image 1 carries a saved geometry, the others none
ImageCropParams(img) == IF img = 1 THEN "cpSaved" ELSE NoCropParams

\* scale factors in tenths (15 is 1.5): what the default field of the resize
\* view can hold, parseFloat(text) || 1, which is never 0 but can be negative
ScaleFactors == {15, -10}

\* image.batchResizeScaleFactor: 0 stands for undefined
ImageScaleFactor(img) == IF img = 2 THEN 20 ELSE 0

OutputSettingValues == {"jpg80"}

\* ------------------------------------------------------------- the state
VARIABLES
  tasks,               \* useState<ProcessTask[]>
  isProcessing,        \* useState(false)
  processingRef,       \* useRef(false)
  abortControllerRef,  \* useRef<AbortController|null>: 0 is null, else the controller
  aborted,             \* the controllers whose signal is aborted
  runs,                \* the activations of executeBatch still executing, in start order
  calls,               \* history: number of handler calls made so far
  failLog,             \* history: ids of the tasks whose processImage threw since
                       \* the last accepted start
  op,                  \* history: the last step taken
  onErrorCalls,        \* history: the reports the last step passed to onError, in
                       \* order (the id of the failed task, or "batch")
  phase,               \* history: "fresh" no pause/cancel yet, "paused"/"cancelled"
                       \* since the last start call, "resumed" a start call since
  lastStart,           \* history: the cropParams and outputSettings arguments of
                       \* the last accepted start call when it was a startBatch
                       \* (also through retryFailed), else <<>>
  appOutputSettings,   \* the outputSettings state of CropifyApp, as the quality
                       \* panel shows it and last handed it to onSettingsChange
  engine,              \* history: the last call of a function of the transform
                       \* engine or of a size helper, its arguments and its result
  appImages,           \* the images of CropifyApp, in list order (their ids)
  resizeTargets,       \* image.resizeTarget of each image: <<>> or <<settings>>
  filterSettings,      \* useImageFilter: minWidth, minHeight, each <<>> or <<n>>
  selectedImageId,     \* the selected image id: <<>> or <<id>>
  appResizeSettings,   \* useResizeScaling: the resizeSettings state
  lastSettingsRef,     \* useResizeScaling: lastSettingsRef.current
  lastImageIdRef,      \* useResizeScaling: lastImageIdRef.current, <<>> or <<id>>
  effectsPending       \* a render was committed whose effects have not run yet

vars == <<tasks, isProcessing, processingRef, abortControllerRef, aborted, runs,
          calls, failLog, op, onErrorCalls, phase, lastStart, appOutputSettings,
          engine, appImages, resizeTargets, filterSettings, selectedImageId,
          appResizeSettings, lastSettingsRef, lastImageIdRef, effectsPending>>

\* the state of the batch orchestrator and the state the engine calls use
batchVars == <<tasks, isProcessing, processingRef, abortControllerRef, aborted, runs,
               calls, failLog, op, onErrorCalls, phase, lastStart>>

engineVars == <<appOutputSettings, engine>>

\* the state of the editing view: images, filter, selection, resize settings
uiVars == <<appImages, resizeTargets, filterSettings, selectedImageId,
            appResizeSettings, lastSettingsRef, lastImageIdRef, effectsPending>>

PENDING == "pending"

PROCESSING == "processing"

COMPLETED == "completed"

FAILED == "failed"

CANCELLED == "cancelled"

NoBlob == <<>>

NoError == ""

NoResize == <<>>

Terminal == {COMPLETED, FAILED, CANCELLED}

\* ------------------------------------------------------------ updateTask
\* setTasks(prev => prev.map(task => task.id === taskId ? {...task, ...updates} : task))
Merge(task, updates) ==
  [f \in DOMAIN task |-> IF f \in DOMAIN updates THEN updates[f] ELSE task[f]]

\* mutant: an update of an identifier the list does not hold inserts it
updateTaskUpsert(ts, taskId, updates) ==
  IF \E i \in 1..Len(ts) : ts[i].id = taskId
  THEN [i \in 1..Len(ts) |-> IF ts[i].id = taskId THEN Merge(ts[i], updates) ELSE ts[i]]
  ELSE Append(ts, updates)

updateTask(ts, taskId, updates) ==
  [i \in 1..Len(ts) |-> IF ts[i].id = taskId THEN Merge(ts[i], updates) ELSE ts[i]]

\* generateId(): an identifier no task in use carries.  Identifiers are
\* numbers; `used` are those of the tasks in the list and in the snapshots of
\* the executing runs, and the call yields the (k+1)-th number not among them
\* (an identifier nothing refers to any more can never be compared again).
generateId(used, k) ==
  CHOOSE m \in 1..(Cardinality(used) + k + 1) :
    m \notin used /\ Cardinality({ d \in 1..(m-1) : d \notin used }) = k

\* tasks.find(t => t.imageId === image.id && t.processType === type): index or 0
FindTask(ts, img, type) ==
  IF \E i \in 1..Len(ts) : ts[i].imageId = img /\ ts[i].processType = type
  THEN CHOOSE i \in 1..Len(ts) :
         /\ ts[i].imageId = img /\ ts[i].processType = type
         /\ \A j \in 1..(i-1) : ~(ts[j].imageId = img /\ ts[j].processType = type)
  ELSE 0

\* ---------------------------------------------------------- startBatch map
\* how many generateId() calls the map made before position k
FreshBefore(ts, imgs, k) ==
  Cardinality({ j \in 1..(k-1) : FindTask(ts, imgs[j], "crop") = 0 })

\* mutant: a completed task is rebuilt like any other existing task
CropTaskNoReuse(ts, imgs, k, cropParams, outputSettings, n) ==
  LET e == FindTask(ts, imgs[k], "crop") IN
  [ id             |-> IF e # 0 THEN ts[e].id ELSE generateId(n, FreshBefore(ts, imgs, k)),
    imageId        |-> imgs[k],
    status         |-> PENDING,
    progress       |-> 0,
    processType    |-> "crop",
    cropParams     |-> IF ImageCropParams(imgs[k]) # NoCropParams
                       THEN ImageCropParams(imgs[k]) ELSE cropParams,
    resizeSettings |-> NoResize,
    outputSettings |-> outputSettings,
    error          |-> NoError,
    processedBlob  |-> NoBlob ]

\* mutant: a task that exists keeps the geometry it has
CropTaskKeepsParams(ts, imgs, k, cropParams, outputSettings, n) ==
  LET e == FindTask(ts, imgs[k], "crop") IN
  IF e # 0 /\ ts[e].status = COMPLETED THEN ts[e]
  ELSE [ id             |-> IF e # 0 THEN ts[e].id ELSE generateId(n, FreshBefore(ts, imgs, k)),
         imageId        |-> imgs[k],
         status         |-> PENDING,
         progress       |-> 0,
         processType    |-> "crop",
         cropParams     |-> IF e # 0 THEN ts[e].cropParams
                            ELSE IF ImageCropParams(imgs[k]) # NoCropParams
                            THEN ImageCropParams(imgs[k]) ELSE cropParams,
         resizeSettings |-> NoResize,
         outputSettings |-> outputSettings,
         error          |-> NoError,
         processedBlob  |-> NoBlob ]

\* lines 224-236: the task startBatch makes for the k-th image
CropTask(ts, imgs, k, cropParams, outputSettings, n) ==
  LET e == FindTask(ts, imgs[k], "crop") IN
  IF e # 0 /\ ts[e].status = COMPLETED THEN ts[e]
  ELSE [ id             |-> IF e # 0 THEN ts[e].id ELSE generateId(n, FreshBefore(ts, imgs, k)),
         imageId        |-> imgs[k],
         status         |-> PENDING,
         progress       |-> 0,
         processType    |-> "crop",
         cropParams     |-> IF ImageCropParams(imgs[k]) # NoCropParams
                            THEN ImageCropParams(imgs[k]) ELSE cropParams,
         resizeSettings |-> NoResize,
         outputSettings |-> outputSettings,
         error          |-> NoError,
         processedBlob  |-> NoBlob ]

CropTasks(ts, imgs, cropParams, outputSettings, n) ==
  [k \in 1..Len(imgs) |-> CropTask(ts, imgs, k, cropParams, outputSettings, n)]

\* ---------------------------------------------------- startResizeBatch map
\* mutant: the per-image scale factor is ignored
ResizeTaskBatchFactor(imgs, k, scaleFactor, outputSettings, n) ==
  [ id             |-> generateId(n, k - 1),
    imageId        |-> imgs[k],
    status         |-> PENDING,
    progress       |-> 0,
    processType    |-> "resize",
    cropParams     |-> "zero",
    resizeSettings |-> <<scaleFactor>>,
    outputSettings |-> outputSettings,
    error          |-> NoError,
    processedBlob  |-> NoBlob ]

ResizeTask(imgs, k, scaleFactor, outputSettings, n) ==
  [ id             |-> generateId(n, k - 1),
    imageId        |-> imgs[k],
    status         |-> PENDING,
    progress       |-> 0,
    processType    |-> "resize",
    cropParams     |-> "zero",
    resizeSettings |-> IF ImageScaleFactor(imgs[k]) # 0
                       THEN <<ImageScaleFactor(imgs[k])>> ELSE <<scaleFactor>>,
    outputSettings |-> outputSettings,
    error          |-> NoError,
    processedBlob  |-> NoBlob ]

ResizeTasks(imgs, scaleFactor, outputSettings, n) ==
  [k \in 1..Len(imgs) |-> ResizeTask(imgs, k, scaleFactor, outputSettings, n)]

\* the identifiers in use
UsedIds(ts, rs) ==
  { ts[i].id : i \in 1..Len(ts) } \cup
  UNION { { rs[r].pendingTasks[k].id : k \in 1..Len(rs[r].pendingTasks) } : r \in 1..Len(rs) }

\* --------------------------------------------------------------- the runs
\* newTasks.filter(task => task.status === PENDING || task.status === FAILED)
PendingOf(newTasks) ==
  SelectSeq(newTasks, LAMBDA t : t.status = PENDING \/ t.status = FAILED)

NewRun(newTasks, imgs) ==
  [ pendingTasks |-> PendingOf(newTasks),
    images       |-> imgs,
    idx          |-> 1,
    pc           |-> "start",
    signal       |-> 0,
    terminated   |-> {} ]

\* no run is between its setTasks(newTasks) and its first loop test
Idle == \A r \in 1..Len(runs) : runs[r].pc # "start"

InFlight(r) == runs[r].pc \in {"load", "engine", "convert"}

\* useResizeScaling: defaultSettings
defaultSettings == [enabled |-> FALSE, width |-> 1024, height |-> 1024]

\* the settings useOutputSettings starts with
DefaultOutputSettings == [format |-> "jpg", quality |-> 80]

Init ==
  /\ tasks = <<>>
  /\ isProcessing = FALSE
  /\ processingRef = FALSE
  /\ abortControllerRef = 0
  /\ aborted = {}
  /\ runs = <<>>
  /\ calls = 0
  /\ failLog = {}
  /\ op = "init"
  /\ onErrorCalls = <<>>
  /\ phase = "fresh"
  /\ lastStart = <<>>
  /\ appOutputSettings = DefaultOutputSettings
  /\ appImages = [k \in 1..NumImages |-> k]
  /\ resizeTargets = [img \in ImageIds |-> <<>>]
  /\ filterSettings = [minWidth |-> <<>>, minHeight |-> <<>>]
  /\ selectedImageId = <<>>
  /\ appResizeSettings = defaultSettings
  /\ lastSettingsRef = defaultSettings
  /\ lastImageIdRef = <<>>
  /\ effectsPending = TRUE
  /\ engine = [fn |-> "none"]

\* ------------------------------------------------------- abort controllers
\* A controller is an object; it is named by a number.  A controller that
\* neither abortControllerRef nor the signal of an executing processImage
\* refers to is garbage and its number is used again.
Referenced(ref, rs) == {ref} \cup { rs[r].signal : r \in 1..Len(rs) }

\* new AbortController()
NewController ==
  CHOOSE c \in 1..(MaxRuns + 1) :
    /\ c \notin Referenced(abortControllerRef, runs)
    /\ \A d \in 1..(c-1) : d \in Referenced(abortControllerRef, runs)

\* mutant: the report reaches onError twice
addErrorTwice(report) == <<report, report>>

\* lines 29-31: addError passes one report to onError
addError(report) == <<report>>

\* the sequence rs without its r-th element
Without(rs, r) ==
  [i \in 1..(Len(rs) - 1) |-> IF i < r THEN rs[i] ELSE rs[i + 1]]

\* ----------------------------------------------------------- executeBatch
\* mutant: the new tasks are appended to the list instead of replacing it
executeBatchAppends(newTasks, imgs) ==
  IF isProcessing
  THEN UNCHANGED <<tasks, isProcessing, processingRef, abortControllerRef, runs, failLog>>
  ELSE /\ isProcessing' = TRUE
       /\ processingRef' = TRUE
       /\ abortControllerRef' = NewController
       /\ tasks' = tasks \o newTasks
       /\ runs' = Append(runs, NewRun(newTasks, imgs))
       /\ failLog' = {}

\* mutant: the call is not turned away while a batch is processing
executeBatchUnguarded(newTasks, imgs) ==
  /\ isProcessing' = TRUE
  /\ processingRef' = TRUE
  /\ abortControllerRef' = NewController
  /\ tasks' = newTasks
  /\ runs' = Append(runs, NewRun(newTasks, imgs))
  /\ failLog' = {}

\* lines 175-186: the guard on isProcessing, the flags, the new controller and
\* setTasks(newTasks); the run then stands before its loop
executeBatch(newTasks, imgs) ==
  IF isProcessing
  THEN UNCHANGED <<tasks, isProcessing, processingRef, abortControllerRef, runs, failLog>>
  ELSE /\ isProcessing' = TRUE
       /\ processingRef' = TRUE
       /\ abortControllerRef' = NewController
       /\ tasks' = newTasks
       /\ runs' = Append(runs, NewRun(newTasks, imgs))
       /\ failLog' = {}

\* line 189: the loop goes on unless
\* !processingRef.current || abortControllerRef.current?.signal.aborted
LoopContinues ==
  processingRef /\ ~(abortControllerRef # 0 /\ abortControllerRef \in aborted)

\* mutant: the lookup misses the first image of the list
HasImageAfterFirst(imgs, img) == \E k \in 2..Len(imgs) : imgs[k] = img

\* images.find(img => img.id === task.imageId)
HasImage(imgs, img) == \E k \in 1..Len(imgs) : imgs[k] = img

\* `if (!image) continue`: the first index from k on whose task has an image
NextWithImage(run, k) ==
  IF \E j \in k..Len(run.pendingTasks) : HasImage(run.images, run.pendingTasks[j].imageId)
  THEN CHOOSE j \in k..Len(run.pendingTasks) :
         /\ HasImage(run.images, run.pendingTasks[j].imageId)
         /\ \A i \in k..(j-1) : ~HasImage(run.images, run.pendingTasks[i].imageId)
  ELSE Len(run.pendingTasks) + 1

\* mutant: the finally block leaves the isProcessing state as it is
FinallyKeepsState(r) ==
  /\ isProcessing' = isProcessing
  /\ processingRef' = FALSE
  /\ abortControllerRef' = 0
  /\ runs' = Without(runs, r)

\* lines 210-214: the finally block; the activation r ends
Finally(r) ==
  /\ isProcessing' = FALSE
  /\ processingRef' = FALSE
  /\ abortControllerRef' = 0
  /\ runs' = Without(runs, r)

\* processImage returned for the task at index j; the run awaits the delay
Returned(r, j) ==
  [runs EXCEPT ![r].pc = "delay", ![r].idx = j, ![r].signal = 0,
               ![r].terminated = @ \cup {j}]

\* lines 188-196 and 46-66: one pass from the loop test to the first await of
\* processImage, for the run r standing at index k
Iterate(r, k) ==
  LET run == runs[r]
      j   == NextWithImage(run, k)
  IN
  IF j > Len(run.pendingTasks) \/ ~LoopContinues
  THEN /\ Finally(r)
       /\ onErrorCalls' = <<>>
       /\ UNCHANGED <<tasks, failLog>>
  ELSE IF abortControllerRef = 0
  THEN \* abortControllerRef.current.signal throws; caught at lines 201-209
       /\ Finally(r)
       /\ onErrorCalls' = addError("batch")
       /\ UNCHANGED <<tasks, failLog>>
  ELSE IF abortControllerRef \in aborted
  THEN \* lines 47-50
       /\ tasks' = updateTask(tasks, run.pendingTasks[j].id, [status |-> CANCELLED])
       /\ runs' = Returned(r, j)
       /\ onErrorCalls' = <<>>
       /\ UNCHANGED <<isProcessing, processingRef, abortControllerRef, failLog>>
  ELSE \* lines 52-66
       /\ tasks' = updateTask(tasks, run.pendingTasks[j].id,
                              [status |-> PROCESSING, progress |-> 0])
       /\ runs' = [runs EXCEPT ![r].pc = "load", ![r].idx = j,
                               ![r].signal = abortControllerRef]
       /\ failLog' = failLog \ {run.pendingTasks[j].id}
       /\ onErrorCalls' = <<>>
       /\ UNCHANGED <<isProcessing, processingRef, abortControllerRef>>

\* ----------------------------------------------------------- processImage
\* the bytes a task yields: the engine is a function of its inputs
Blob(task) ==
  IF task.processType = "resize" /\ task.resizeSettings # NoResize
  THEN <<"resize", task.imageId, task.resizeSettings[1], task.outputSettings>>
  ELSE <<"crop", task.imageId, task.cropParams, task.outputSettings>>

\* the task processImage of run r is working on
Current(r) == runs[r].pendingTasks[runs[r].idx]

\* mutant: the error leaves the loop, the run ends with it
CatchEndsRun(r, msg) ==
  /\ tasks' = updateTask(tasks, Current(r).id,
                         [status |-> FAILED, error |-> msg, progress |-> 0])
  /\ failLog' = failLog \cup {Current(r).id}
  /\ onErrorCalls' = addError(Current(r).id)
  /\ runs' = Without(runs, r)

\* lines 117-131: the catch block, for the error message msg
Catch(r, msg) ==
  /\ tasks' = updateTask(tasks, Current(r).id,
                         [status |-> FAILED, error |-> msg, progress |-> 0])
  /\ failLog' = failLog \cup {Current(r).id}
  /\ onErrorCalls' = addError(Current(r).id)
  /\ runs' = Returned(r, runs[r].idx)

\* mutant: the abort checks inside processImage never see the abort
SignalNeverAborted(r) == FALSE

\* abortSignal.aborted, for the signal processImage of run r was given
SignalAborted(r) == runs[r].signal \in aborted

\* an abort check of processImage that finds the signal aborted
Cancelled(r) ==
  /\ tasks' = updateTask(tasks, Current(r).id, [status |-> CANCELLED])
  /\ runs' = Returned(r, runs[r].idx)
  /\ onErrorCalls' = <<>>
  /\ UNCHANGED failLog

\* line 66 resumes: the image loaded (ok) or img.onerror fired
LoadResolve(r, ok) ==
  /\ Idle
  /\ runs[r].pc = "load"
  /\ IF ~ok THEN Catch(r, "load")
     ELSE IF SignalAborted(r) THEN Cancelled(r)
     ELSE \* lines 73-77: progress 25, then 50, in the same segment
          /\ tasks' = updateTask(updateTask(tasks, Current(r).id, [progress |-> 25]),
                                 Current(r).id, [progress |-> 50])
          /\ runs' = [runs EXCEPT ![r].pc = "engine"]
          /\ onErrorCalls' = <<>>
          /\ UNCHANGED failLog
  /\ aborted' = aborted \cap Referenced(abortControllerRef, runs')
  /\ op' = "LoadResolve"
  /\ UNCHANGED engineVars
  /\ UNCHANGED uiVars
  /\ UNCHANGED lastStart
  /\ UNCHANGED <<isProcessing, processingRef, abortControllerRef, calls, phase>>

\* mutant: the engine resizes by any factor
InvalidScaleFactorNever(scaleFactor) == FALSE

\* resizeImageProportionally(imageElement, scaleFactor) fails with
\* InvalidScaleFactor for a scale factor that is not positive
InvalidScaleFactor(scaleFactor) == scaleFactor <= 0

\* lines 87-97: the engine call made for a task can return a blob
EngineAccepts(task) ==
  (task.processType = "resize" /\ task.resizeSettings # NoResize) =>
     ~InvalidScaleFactor(task.resizeSettings[1])

\* line 89 or 96 resumes: the engine returned a blob (ok) or rejected
EngineResolve(r, ok) ==
  /\ Idle
  /\ runs[r].pc = "engine"
  /\ ok => EngineAccepts(Current(r))
  /\ IF ~ok THEN Catch(r, "engine")
     ELSE IF SignalAborted(r)
     THEN /\ tasks' = updateTask(updateTask(tasks, Current(r).id, [progress |-> 75]),
                                 Current(r).id, [status |-> CANCELLED])
          /\ runs' = Returned(r, runs[r].idx)
          /\ onErrorCalls' = <<>>
          /\ UNCHANGED failLog
     ELSE /\ tasks' = updateTask(tasks, Current(r).id, [progress |-> 75])
          /\ runs' = [runs EXCEPT ![r].pc = "convert"]
          /\ onErrorCalls' = <<>>
          /\ UNCHANGED failLog
  /\ aborted' = aborted \cap Referenced(abortControllerRef, runs')
  /\ op' = "EngineResolve"
  /\ UNCHANGED engineVars
  /\ UNCHANGED uiVars
  /\ UNCHANGED lastStart
  /\ UNCHANGED <<isProcessing, processingRef, abortControllerRef, calls, phase>>

\* line 107 resumes: convertBlobFormat returned the final blob (ok) or rejected
ConvertResolve(r, ok) ==
  /\ Idle
  /\ runs[r].pc = "convert"
  /\ IF ~ok THEN Catch(r, "convert")
     ELSE /\ tasks' = updateTask(tasks, Current(r).id,
                                 [status |-> COMPLETED, progress |-> 100,
                                  processedBlob |-> Blob(Current(r))])
          /\ runs' = Returned(r, runs[r].idx)
          /\ onErrorCalls' = <<>>
          /\ UNCHANGED failLog
  /\ aborted' = aborted \cap Referenced(abortControllerRef, runs')
  /\ op' = "ConvertResolve"
  /\ UNCHANGED engineVars
  /\ UNCHANGED uiVars
  /\ UNCHANGED lastStart
  /\ UNCHANGED <<isProcessing, processingRef, abortControllerRef, calls, phase>>

\* the run enters its loop right after setTasks(newTasks)
Begin(r) ==
  /\ runs[r].pc = "start"
  /\ Iterate(r, 1)
  /\ aborted' = aborted \cap Referenced(abortControllerRef', runs')
  /\ op' = "Begin"
  /\ UNCHANGED engineVars
  /\ UNCHANGED uiVars
  /\ UNCHANGED lastStart
  /\ UNCHANGED <<calls, phase>>

\* line 198 resumes: the 50 ms timer fired, the loop takes its next pass
DelayResolve(r) ==
  /\ Idle
  /\ runs[r].pc = "delay"
  /\ Iterate(r, runs[r].idx + 1)
  /\ aborted' = aborted \cap Referenced(abortControllerRef', runs')
  /\ op' = "DelayResolve"
  /\ UNCHANGED engineVars
  /\ UNCHANGED uiVars
  /\ UNCHANGED lastStart
  /\ UNCHANGED <<calls, phase>>

\* ------------------------------------------------------------ the handlers
StartCall(newTasks, imgs, name, given) ==
  /\ Idle
  /\ isProcessing \/ Len(runs) < MaxRuns
  /\ calls < MaxCalls
  /\ executeBatch(newTasks, imgs)
  /\ aborted' = aborted \cap Referenced(abortControllerRef', runs')
  /\ calls' = calls + 1
  /\ op' = name
  /\ UNCHANGED engineVars
  /\ UNCHANGED uiVars
  /\ lastStart' = IF isProcessing THEN lastStart ELSE given
  /\ onErrorCalls' = <<>>
  /\ phase' = IF phase = "fresh" THEN "fresh" ELSE "resumed"

startBatch(imgs, cropParams, outputSettings) ==
  StartCall(CropTasks(tasks, imgs, cropParams, outputSettings, UsedIds(tasks, runs)), imgs,
            "startBatch", <<[cropParams |-> cropParams, outputSettings |-> outputSettings]>>)

startResizeBatch(imgs, scaleFactor, outputSettings) ==
  StartCall(ResizeTasks(imgs, scaleFactor, outputSettings, UsedIds(tasks, runs)), imgs,
            "startResizeBatch", <<>>)

\* lines 286-294: retryFailed awaits startBatch with its own arguments
retryFailed(imgs, cropParams, outputSettings) ==
  StartCall(CropTasks(tasks, imgs, cropParams, outputSettings, UsedIds(tasks, runs)), imgs,
            "retryFailed", <<[cropParams |-> cropParams, outputSettings |-> outputSettings]>>)

\* abortControllerRef.current?.abort(): the aborted controllers afterwards
Abort == IF abortControllerRef = 0 THEN aborted ELSE aborted \cup {abortControllerRef}

\* mutant: pause only clears the isProcessing state
pauseBatchFlagOnly ==
  /\ Idle
  /\ calls < MaxCalls
  /\ calls' = calls + 1
  /\ isProcessing' = FALSE
  /\ op' = "pauseBatch"
  /\ UNCHANGED engineVars
  /\ UNCHANGED uiVars
  /\ UNCHANGED lastStart
  /\ onErrorCalls' = <<>>
  /\ phase' = IF phase = "cancelled" THEN "cancelled" ELSE "paused"
  /\ UNCHANGED <<tasks, processingRef, abortControllerRef, aborted, runs, failLog>>

\* mutant: pause also marks the task in flight cancelled
pauseBatchMarksCancelled ==
  /\ Idle
  /\ calls < MaxCalls
  /\ calls' = calls + 1
  /\ processingRef' = FALSE
  /\ aborted' = Abort
  /\ isProcessing' = FALSE
  /\ tasks' = [i \in 1..Len(tasks) |->
                 IF tasks[i].status = PROCESSING
                 THEN Merge(tasks[i], [status |-> CANCELLED]) ELSE tasks[i]]
  /\ op' = "pauseBatch"
  /\ UNCHANGED engineVars
  /\ UNCHANGED uiVars
  /\ UNCHANGED lastStart
  /\ onErrorCalls' = <<>>
  /\ phase' = IF phase = "cancelled" THEN "cancelled" ELSE "paused"
  /\ UNCHANGED <<abortControllerRef, runs, failLog>>

pauseBatch ==
  /\ Idle
  /\ calls < MaxCalls
  /\ calls' = calls + 1
  /\ processingRef' = FALSE
  /\ aborted' = Abort
  /\ isProcessing' = FALSE
  /\ op' = "pauseBatch"
  /\ UNCHANGED engineVars
  /\ UNCHANGED uiVars
  /\ UNCHANGED lastStart
  /\ onErrorCalls' = <<>>
  /\ phase' = IF phase = "cancelled" THEN "cancelled" ELSE "paused"
  /\ UNCHANGED <<tasks, abortControllerRef, runs, failLog>>

cancelBatch ==
  /\ Idle
  /\ calls < MaxCalls
  /\ calls' = calls + 1
  /\ processingRef' = FALSE
  /\ aborted' = Abort
  /\ isProcessing' = FALSE
  /\ tasks' = <<>>
  /\ op' = "cancelBatch"
  /\ UNCHANGED engineVars
  /\ UNCHANGED uiVars
  /\ UNCHANGED lastStart
  /\ onErrorCalls' = <<>>
  /\ phase' = "cancelled"
  /\ UNCHANGED <<abortControllerRef, runs, failLog>>

Next ==
  \/ \E imgs \in ImageLists, cp \in CropParamValues, os \in OutputSettingValues :
       startBatch(imgs, cp, os)
  \/ \E imgs \in ImageLists, sf \in ScaleFactors, os \in OutputSettingValues :
       startResizeBatch(imgs, sf, os)
  \/ \E imgs \in ImageLists, cp \in CropParamValues, os \in OutputSettingValues :
       retryFailed(imgs, cp, os)
  \/ pauseBatch
  \/ cancelBatch
  \/ \E r \in 1..Len(runs) : Begin(r)
  \/ \E r \in 1..Len(runs), ok \in BOOLEAN : LoadResolve(r, ok)
  \/ \E r \in 1..Len(runs), ok \in BOOLEAN : EngineResolve(r, ok)
  \/ \E r \in 1..Len(runs), ok \in BOOLEAN : ConvertResolve(r, ok)
  \/ \E r \in 1..Len(runs) : DelayResolve(r)

Spec == Init /\ [][Next]_vars

\* every pending await settles: the browser fires onload/onerror, the engine
\* and toBlob promises settle, the 50 ms timer fires, and the continuation of
\* an async function runs once its await has settled
Resolves ==
  \E r \in 1..Len(runs) :
     \/ Begin(r)
     \/ \E ok \in BOOLEAN : LoadResolve(r, ok)
     \/ \E ok \in BOOLEAN : EngineResolve(r, ok)
     \/ \E ok \in BOOLEAN : ConvertResolve(r, ok)
     \/ DelayResolve(r)

FairSpec == Spec /\ WF_vars(Resolves)

\* ======================================================= the engine calls
\* The transform engine and the size helpers are functions of their
\* arguments.  An engine step draws the arguments from the sets below, applies
\* the function and records arguments and result in `engine` until the call
\* returns.  Lengths are
\* whole pixels unless a definition says otherwise; scale factors are in
\* tenths (15 is 1.5), as in the batch part.
\* A JavaScript value that is a number or is missing is a sequence of at most
\* one integer: <<15>> is the number, <<>> is undefined or NaN.
Undefined == <<>>

NaN == <<>>

\* floor(a / b) for b # 0
FloorDiv(a, b) == IF b > 0 THEN a \div b ELSE (-a) \div (-b)

\* Math.round(n / d) = floor(n / d + 1/2)
MathRound(n, d) == FloorDiv(2 * n + d, 2 * d)

Min(a, b) == IF a <= b THEN a ELSE b

Max(a, b) == IF a >= b THEN a ELSE b

\* image.width, image.height of the images the resize view lists
SourceDims == {1, 100, 3000}

\* what parseFloat makes of the text typed into a scale factor field
TypedFactors == {NaN, <<0>>, <<-10>>, <<15>>, <<30>>, <<2500>>}

\* BatchResizeView, the default field: parseFloat(e.target.value) || 1
scaleFactorInput(typed) == IF typed = NaN \/ typed[1] = 0 THEN 10 ELSE typed[1]

\* BatchResizeView, the field of one image: isNaN(val) ? undefined : val
batchResizeScaleFactorInput(typed) == IF typed = NaN THEN Undefined ELSE typed

\* mutant: the size is rounded down
calculateNewSizeFloor(width, height, imageScaleFactor, scaleFactor) ==
  LET factor == IF imageScaleFactor = Undefined \/ imageScaleFactor[1] = 0
                THEN scaleFactor ELSE imageScaleFactor[1]
  IN [ width  |-> FloorDiv(10 * width, factor),
       height |-> FloorDiv(10 * height, factor) ]

\* mutant: the size is multiplied by the factor
calculateNewSizeTimes(width, height, imageScaleFactor, scaleFactor) ==
  LET factor == IF imageScaleFactor = Undefined \/ imageScaleFactor[1] = 0
                THEN scaleFactor ELSE imageScaleFactor[1]
  IN [ width  |-> MathRound(width * factor, 10),
       height |-> MathRound(height * factor, 10) ]

\* calculateNewSize(width, height, imageScaleFactor), with the scaleFactor of
\* the view's resizeSettings: factor = imageScaleFactor || scaleFactor
calculateNewSize(width, height, imageScaleFactor, scaleFactor) ==
  LET factor == IF imageScaleFactor = Undefined \/ imageScaleFactor[1] = 0
                THEN scaleFactor ELSE imageScaleFactor[1]
  IN [ width  |-> MathRound(10 * width, factor),
       height |-> MathRound(10 * height, factor) ]

\* the resize view renders the target size of a listed image (line 114)
CalculateNewSizeCall ==
  /\ engine.fn = "none"
  /\ \E w \in SourceDims, h \in SourceDims, td \in TypedFactors, ti \in TypedFactors :
        engine' = [ fn              |-> "calculateNewSize",
                    width           |-> w,
                    height          |-> h,
                    imageScaleFactor |-> batchResizeScaleFactorInput(ti),
                    scaleFactor     |-> scaleFactorInput(td),
                    out             |-> calculateNewSize(w, h, batchResizeScaleFactorInput(ti),
                                                         scaleFactorInput(td)) ]
  /\ UNCHANGED <<batchVars, appOutputSettings, uiVars>>

\* ------------------------------------------------------------ cropImage
\* crop width and height, crop x and y
CropDims == {1, 100, 200}

CropOffsets == {0, 10}

\* rotation in degrees; the model keeps to the right angles
Rotations == {0, 90, 180, 270}

\* borderRadius in hundredths (100 is the fraction 1, a full round corner)
BorderRadii == {0, 50, 100, 150}

\* image.resizeTarget: missing, saved and disabled, saved and enabled
ResizeTargets ==
  { Undefined,
    <<[enabled |-> FALSE, width |-> 1024, height |-> 1024]>>,
    <<[enabled |-> TRUE, width |-> 50, height |-> 40]>> }

\* the CropParams objects: the optional fields are always given
CropParamsObjects ==
  [ width : CropDims, height : CropDims, x : CropOffsets, y : CropOffsets,
    rotation : Rotations, flipHorizontal : BOOLEAN, flipVertical : BOOLEAN,
    borderRadius : BorderRadii ]

\* Math.cos and Math.sin of a right angle, the residue of the floating-point
\* value left out (a canvas position moves by less than 1e-12 pixel)
Cos(rotation) == CASE rotation = 0 -> 1 [] rotation = 90 -> 0
                   [] rotation = 180 -> -1 [] rotation = 270 -> 0

Sin(rotation) == CASE rotation = 0 -> 0 [] rotation = 90 -> 1
                   [] rotation = 180 -> 0 [] rotation = 270 -> -1

\* mutant: the origin is not moved to the centre of the canvas
TransformNoTranslate(width, height, rotation, flipHorizontal, flipVertical, point) ==
  LET scaleX == IF flipHorizontal THEN -1 ELSE 1
      scaleY == IF flipVertical THEN -1 ELSE 1
      scaled == [x |-> scaleX * point.x, y |-> scaleY * point.y]
  IN IF rotation # 0
       THEN [ x |-> scaled.x * Cos(rotation) - scaled.y * Sin(rotation),
              y |-> scaled.x * Sin(rotation) + scaled.y * Cos(rotation) ]
       ELSE scaled

\* The canvas position of a point of user space under translate(width / 2,
\* height / 2), rotate, scale.  Points are in half pixels, so width / 2 is
\* `width`.
Transform(width, height, rotation, flipHorizontal, flipVertical, point) ==
  LET scaleX == IF flipHorizontal THEN -1 ELSE 1
      scaleY == IF flipVertical THEN -1 ELSE 1
      scaled == [x |-> scaleX * point.x, y |-> scaleY * point.y]
      rotated == IF rotation # 0
                   THEN [ x |-> scaled.x * Cos(rotation) - scaled.y * Sin(rotation),
                          y |-> scaled.x * Sin(rotation) + scaled.y * Cos(rotation) ]
                   ELSE scaled
  IN [x |-> rotated.x + width, y |-> rotated.y + height]

\* mutant: the radius is used as given
createRoundedRectPathAsGiven(width, height, radius) == radius

\* createRoundedRectPath: the radius of the path, in 1/200 pixel
\* (width / 2 is 100 * width)
createRoundedRectPath(width, height, radius) ==
  Min(radius, Min(100 * width, 100 * height))

\* the clip of cropImage: none for borderRadius 0, else the corner radius
\* (Math.min(width, height) * borderRadius / 2 is min * borderRadius in
\* 1/200 pixel)
ClipOf(cropParams) ==
  IF cropParams.borderRadius > 0
    THEN <<createRoundedRectPath(cropParams.width, cropParams.height,
             Min(cropParams.width, cropParams.height) * cropParams.borderRadius)>>
    ELSE <<>>

\* ------------------------------------------------- the 2D context, this.ctx
\* The drawing state of the context: the current transformation matrix
\* (x' = a x + c y + e, y' = b x + d y + f), the clip (none, or the radius of
\* the clipping path with the matrix that was in effect when the path was
\* built) and the stack of saved states.
IdentityMatrix == [a |-> 1, b |-> 0, c |-> 0, d |-> 1, e |-> 0, f |-> 0]

\* the context after canvas.width and canvas.height are assigned: assigning
\* a canvas dimension resets the context to its default state
ResetContext == [transform |-> IdentityMatrix, clip |-> <<>>, stack |-> <<>>]

\* ctx.save(): the transform and the clip are pushed
ctxSave(ctx) ==
  [ctx EXCEPT !.stack = Append(@, [transform |-> ctx.transform, clip |-> ctx.clip])]

\* ctx.restore(): the state saved last is popped; nothing if none is saved
ctxRestore(ctx) ==
  IF ctx.stack = <<>> THEN ctx
  ELSE [ transform |-> ctx.stack[Len(ctx.stack)].transform,
         clip |-> ctx.stack[Len(ctx.stack)].clip,
         stack |-> SubSeq(ctx.stack, 1, Len(ctx.stack) - 1) ]

ctxTranslate(ctx, tx, ty) ==
  LET m == ctx.transform
  IN [ctx EXCEPT !.transform = [m EXCEPT !.e = m.a * tx + m.c * ty + m.e,
                                         !.f = m.b * tx + m.d * ty + m.f]]

\* ctx.rotate((rotation * Math.PI) / 180)
ctxRotate(ctx, rotation) ==
  LET m == ctx.transform
  IN [ctx EXCEPT !.transform =
        [m EXCEPT !.a = m.a * Cos(rotation) + m.c * Sin(rotation),
                  !.b = m.b * Cos(rotation) + m.d * Sin(rotation),
                  !.c = m.c * Cos(rotation) - m.a * Sin(rotation),
                  !.d = m.d * Cos(rotation) - m.b * Sin(rotation)]]

ctxScale(ctx, scaleX, scaleY) ==
  LET m == ctx.transform
  IN [ctx EXCEPT !.transform = [m EXCEPT !.a = m.a * scaleX, !.b = m.b * scaleX,
                                         !.c = m.c * scaleY, !.d = m.d * scaleY]]

\* createRoundedRectPath(0, 0, width, height, radius) and ctx.clip(): the
\* points of a path are placed by the matrix in effect when they are added
ctxClip(ctx, radius) ==
  [ctx EXCEPT !.clip = <<[radius |-> radius, transform |-> ctx.transform]>>]

\* the canvas position (half pixels) of a point under a matrix
ApplyMatrix(m, point) ==
  [x |-> m.a * point.x + m.c * point.y + m.e, y |-> m.b * point.x + m.d * point.y + m.f]

\* mutant: the geometry is not applied again after the clip
DrawingClipLast(halfWidth, halfHeight, rotation, flipHorizontal, flipVertical, borderRadius, radius) ==
  LET scaleX == IF flipHorizontal THEN -1 ELSE 1
      scaleY == IF flipVertical THEN -1 ELSE 1
      Geometry(ctx) ==
        ctxScale(IF rotation # 0
                   THEN ctxRotate(ctxTranslate(ctx, halfWidth, halfHeight), rotation)
                   ELSE ctxTranslate(ctx, halfWidth, halfHeight), scaleX, scaleY)
      transformed == Geometry(ctxSave(ResetContext))
      atDraw == IF borderRadius > 0
                  THEN ctxClip(ctxSave(ctxRestore(transformed)), radius)
                  ELSE transformed
  IN [ drawTransform |-> atDraw.transform, clip |-> atDraw.clip,
       after |-> ctxRestore(atDraw) ]

\* The context calls cropImage and generatePreview make between the
\* assignment of the canvas size and the end of the drawing: save, translate
\* to the centre, rotate, scale; with a borderRadius restore, save, clip and
\* the three again; drawImage; restore.  halfWidth and halfHeight are the
\* translation, radius the radius of the clipping path.  The result: the
\* matrix and the clip in effect at drawImage and the context afterwards.
Drawing(halfWidth, halfHeight, rotation, flipHorizontal, flipVertical, borderRadius, radius) ==
  LET scaleX == IF flipHorizontal THEN -1 ELSE 1
      scaleY == IF flipVertical THEN -1 ELSE 1
      Geometry(ctx) ==
        ctxScale(IF rotation # 0
                   THEN ctxRotate(ctxTranslate(ctx, halfWidth, halfHeight), rotation)
                   ELSE ctxTranslate(ctx, halfWidth, halfHeight), scaleX, scaleY)
      transformed == Geometry(ctxSave(ResetContext))
      atDraw == IF borderRadius > 0
                  THEN Geometry(ctxClip(ctxSave(ctxRestore(transformed)), radius))
                  ELSE transformed
  IN [ drawTransform |-> atDraw.transform, clip |-> atDraw.clip,
       after |-> ctxRestore(atDraw) ]

\* outputSettings?.resizeTarget?.enabled
ResizeEnabled(outputSettings) ==
  /\ outputSettings # Undefined
  /\ "resizeTarget" \in DOMAIN outputSettings[1]
  /\ outputSettings[1].resizeTarget # Undefined
  /\ outputSettings[1].resizeTarget[1].enabled

\* cropImage(imageElement, cropParams, outputSettings): the canvas it draws
\* on, the clip, the source rectangle and the canvas positions (half pixels)
\* its corners are drawn at, and the size of the surface the blob is made of
cropImage(cropParams, outputSettings) ==
  LET width == cropParams.width
      height == cropParams.height
      At(point) == Transform(width, height, cropParams.rotation,
                             cropParams.flipHorizontal, cropParams.flipVertical, point)
  IN [ canvas |-> [width |-> width, height |-> height],
       clip   |-> ClipOf(cropParams),
       source |-> [x |-> cropParams.x, y |-> cropParams.y,
                   width |-> width, height |-> height],
       topLeft     |-> At([x |-> -width, y |-> -height]),
       bottomRight |-> At([x |-> width, y |-> height]),
       drawing |-> Drawing(width, height, cropParams.rotation,
                     cropParams.flipHorizontal, cropParams.flipVertical,
                     cropParams.borderRadius,
                     IF cropParams.borderRadius > 0 THEN ClipOf(cropParams)[1] ELSE 0),
       blob   |-> IF ResizeEnabled(outputSettings)
                    THEN [ width  |-> outputSettings[1].resizeTarget[1].width,
                           height |-> outputSettings[1].resizeTarget[1].height ]
                    ELSE [width |-> width, height |-> height] ]

\* the engine is called with a geometry and with no options or a resize target
CropImageCall ==
  /\ engine.fn = "none"
  /\ \E cropParams \in CropParamsObjects, resizeTarget \in ResizeTargets :
        LET outputSettings == IF resizeTarget = Undefined THEN Undefined
                              ELSE <<[resizeTarget |-> resizeTarget]>>
        IN engine' = [ fn |-> "cropImage", cropParams |-> cropParams,
                       resizeTarget |-> resizeTarget,
                       out |-> cropImage(cropParams, outputSettings) ]
  /\ UNCHANGED <<batchVars, appOutputSettings, uiVars>>

\* processImage, the crop branch: the options are the image's resizeTarget
\* or a disabled one, the geometry is the task's or 100 x 100 at the origin
processImageCrop(taskCropParams, imageResizeTarget) ==
  LET resizeSettings ==
        IF imageResizeTarget # Undefined THEN imageResizeTarget
        ELSE <<[enabled |-> FALSE, width |-> 1024, height |-> 1024]>>
      effectiveCropParams ==
        IF taskCropParams # Undefined THEN taskCropParams[1]
        ELSE [ width |-> 100, height |-> 100, x |-> 0, y |-> 0, rotation |-> 0,
               flipHorizontal |-> FALSE, flipVertical |-> FALSE, borderRadius |-> 0 ]
  IN cropImage(effectiveCropParams, resizeSettings)

ProcessImageCropCall ==
  /\ engine.fn = "none"
  /\ \E cropParams \in {Undefined} \cup {<<c>> : c \in CropParamsObjects},
         resizeTarget \in ResizeTargets :
        engine' = [ fn |-> "processImage", cropParams |-> cropParams,
                    resizeTarget |-> resizeTarget,
                    out |-> processImageCrop(cropParams, resizeTarget) ]
  /\ UNCHANGED <<batchVars, appOutputSettings, uiVars>>

\* ------------------------------------------------------ generatePreview
\* the longest side of a preview
PreviewLimit == 300

PreviewDims == {1, 100, 145, 300, 301, 348, 562, 1000}

\* The double dim * (previewSize / longer) lies just below the whole number
\* dim * previewSize / longer: the quotient is rounded down and the product
\* does not make up for it.
FallsShort(dim, longer) == <<dim, longer>> \in {<<145, 348>>, <<562, 562>>}

\* canvas.width = dim * scale: a canvas dimension is an unsigned long, the
\* fraction of the value assigned is dropped
PreviewSide(dim, previewSize, longer) ==
  IF FallsShort(dim, longer) THEN (dim * previewSize) \div longer - 1
  ELSE (dim * previewSize) \div longer

\* mutant: the preview always has the longest side allowed
generatePreviewFill(width, height) ==
  [ width  |-> PreviewSide(width, PreviewLimit, Max(width, height)),
    height |-> PreviewSide(height, PreviewLimit, Max(width, height)) ]

\* generatePreview: the size of the canvas
generatePreview(width, height) ==
  LET previewSize == Min(PreviewLimit, Max(width, height))
  IN IF previewSize = Max(width, height)
       THEN [width |-> width, height |-> height]
       ELSE [ width  |-> PreviewSide(width, previewSize, Max(width, height)),
              height |-> PreviewSide(height, previewSize, Max(width, height)) ]

\* generatePreview: its calls of the context.  previewWidth / 2 is
\* width * previewSize in units of 1 / (2 * longer side) pixel, the radius is
\* in hundredths of that unit.
generatePreviewDrawing(cropParams) ==
  LET width == cropParams.width
      height == cropParams.height
      previewSize == Min(PreviewLimit, Max(width, height))
      previewWidth == width * previewSize
      previewHeight == height * previewSize
  IN Drawing(previewWidth, previewHeight, cropParams.rotation,
             cropParams.flipHorizontal, cropParams.flipVertical,
             cropParams.borderRadius,
             IF cropParams.borderRadius > 0
               THEN createRoundedRectPath(previewWidth, previewHeight,
                      Min(previewWidth, previewHeight) * cropParams.borderRadius)
               ELSE 0)

GeneratePreviewCall ==
  /\ engine.fn = "none"
  /\ \E w \in PreviewDims, h \in PreviewDims, rotation \in Rotations,
        flipHorizontal \in BOOLEAN, flipVertical \in BOOLEAN,
        borderRadius \in BorderRadii :
        LET cropParams == [ width |-> w, height |-> h, x |-> 0, y |-> 0,
                            rotation |-> rotation, flipHorizontal |-> flipHorizontal,
                            flipVertical |-> flipVertical, borderRadius |-> borderRadius ]
        IN engine' = [ fn |-> "generatePreview", width |-> w, height |-> h,
                       cropParams |-> cropParams,
                       out |-> generatePreview(w, h),
                       drawing |-> generatePreviewDrawing(cropParams) ]
  /\ UNCHANGED <<batchVars, appOutputSettings, uiVars>>

\* --------------------------------------------------- calculateRotatedSize
\* the largest power of two that is at most n (n >= 1)
RECURSIVE Pow2Floor(_)
Pow2Floor(n) == IF n < 2 THEN 1 ELSE 2 * Pow2Floor(n \div 2)

\* Math.abs(Math.cos(radians)) of a right angle as a double: 1, 0, or the
\* residue the double nearest to the angle leaves, in units of 1e-21
AbsCos(rotation) ==
  CASE rotation = 0   -> [unit |-> 1, tiny |-> 0]
    [] rotation = 90  -> [unit |-> 0, tiny |-> 61232]
    [] rotation = 180 -> [unit |-> 1, tiny |-> 0]
    [] rotation = 270 -> [unit |-> 0, tiny |-> 183697]

AbsSin(rotation) ==
  CASE rotation = 0   -> [unit |-> 0, tiny |-> 0]
    [] rotation = 90  -> [unit |-> 1, tiny |-> 0]
    [] rotation = 180 -> [unit |-> 0, tiny |-> 122465]
    [] rotation = 270 -> [unit |-> 1, tiny |-> 0]

\* Math.ceil(a * ca + b * cb) in double arithmetic: the sum of a whole
\* number n and a residue is n when the residue is at most half the spacing
\* of the doubles at n (2^-53 = 111022e-21 at 1), else the next double
\* above n, and the ceiling of that is n + 1
CeilOfSum(a, ca, b, cb) ==
  LET whole == a * ca.unit + b * cb.unit
      small == a * ca.tiny + b * cb.tiny
  IN IF small > 111022 * Pow2Floor(whole) THEN whole + 1 ELSE whole

calculateRotatedSize(width, height, rotation) ==
  [ width  |-> CeilOfSum(width, AbsCos(rotation), height, AbsSin(rotation)),
    height |-> CeilOfSum(width, AbsSin(rotation), height, AbsCos(rotation)) ]

CalculateRotatedSizeCall ==
  /\ engine.fn = "none"
  /\ \E w \in SourceDims, h \in SourceDims, rotation \in Rotations :
        engine' = [ fn |-> "calculateRotatedSize", width |-> w, height |-> h,
                    rotation |-> rotation,
                    out |-> calculateRotatedSize(w, h, rotation) ]
  /\ UNCHANGED <<batchVars, appOutputSettings, uiVars>>

\* ------------------------------------------------------ output settings
Formats == {"jpg", "png", "webp"}

\* the positions the quality slider is dragged to
SliderValues == {0, 1, 5, 9, 10, 80, 100}

\* the slider's min and max: 0..9 for png, 1..100 for jpg and webp
QualityRange(format) == IF format = "png" THEN 0..9 ELSE 1..100

\* mutant: the settings are stored as handed over
setOutputSettingsAsGiven(settings) == settings

\* setOutputSettings of useOutputSettings: the quality is clamped to the
\* range of the format
setOutputSettings(settings) ==
  LET lowest == IF settings.format = "png" THEN 0 ELSE 1
      highest == IF settings.format = "png" THEN 9 ELSE 100
  IN [settings EXCEPT !.quality = Max(lowest, Min(highest, settings.quality))]

\* handleSettingChange(field, value): onSettingsChange({...outputSettings,
\* [field]: value}), onSettingsChange being setOutputSettings
handleSettingChange(field, value) ==
  setOutputSettings([appOutputSettings EXCEPT ![field] = value])

\* a format button is clicked
FormatClick ==
  /\ engine.fn = "none"
  /\ \E format \in Formats :
        appOutputSettings' = handleSettingChange("format", format)
  /\ UNCHANGED <<batchVars, engine, uiVars>>

\* the quality slider is moved within its min and max
QualitySlide ==
  /\ engine.fn = "none"
  /\ \E value \in SliderValues \cap QualityRange(appOutputSettings.format) :
        appOutputSettings' = handleSettingChange("quality", value)
  /\ UNCHANGED <<batchVars, engine, uiVars>>

\* convertBlobFormat: the type and the quality handed to canvas.toBlob; the
\* quality is in hundredths, so settings.quality / 100 is settings.quality
convertBlobFormat(settings) ==
  [ mimeType |-> IF settings.format = "jpg" THEN "image/jpeg"
                 ELSE IF settings.format = "png" THEN "image/png" ELSE "image/webp",
    quality  |-> IF settings.format = "png" THEN Undefined ELSE <<settings.quality>> ]

\* a result is encoded with the settings of the moment
ConvertBlobFormatCall ==
  /\ engine.fn = "none"
  /\ engine' = [ fn |-> "convertBlobFormat", settings |-> appOutputSettings,
                 out |-> convertBlobFormat(appOutputSettings) ]
  /\ UNCHANGED <<batchVars, appOutputSettings, uiVars>>

\* the call returns; its record is dropped
EngineReturn ==
  /\ engine.fn # "none"
  /\ engine' = [fn |-> "none"]
  /\ UNCHANGED <<batchVars, appOutputSettings, uiVars>>

EngineNext ==
  \/ CalculateNewSizeCall
  \/ CropImageCall
  \/ ProcessImageCropCall
  \/ GeneratePreviewCall
  \/ CalculateRotatedSizeCall
  \/ FormatClick
  \/ QualitySlide
  \/ ConvertBlobFormatCall
  \/ EngineReturn

EngineSpec == Init /\ [][EngineNext]_vars

\* ======================================================= the editing view
\* CropifyApp with useImageFilter and useResizeScaling.  An event handler
\* commits a render; the effects of that render then run together, reading the
\* values of the render, and commit the next render when they changed state.
\* Effects are flushed before the next event is handled.

\* image.width and image.height of the loaded images
ImageWidth(img) == 100 * img

ImageHeight(img) == 100 * (NumImages + 1 - img)

\* what handleInputChange makes of the text of a filter field: undefined for
\* the empty text, else parseInt(value)
FilterInputs == {<<>>, <<0>>, <<100>>, <<150>>}

\* the settings the resize panel passes to setResizeSettings
UserResizeSettings ==
  { [enabled |-> TRUE, width |-> 800, height |-> 600],
    [enabled |-> TRUE, width |-> 50, height |-> 40] }

\* filterSettings.minWidth !== undefined && filterSettings.minWidth > 0
FilterActive(bound) == bound # <<>> /\ bound[1] > 0

\* the callback of images.filter, lines 19-35
PassesFilter(img, settings) ==
  /\ FilterActive(settings.minWidth) => ~(ImageWidth(img) <= settings.minWidth[1])
  /\ FilterActive(settings.minHeight) => ~(ImageHeight(img) <= settings.minHeight[1])

filteredImages == SelectSeq(appImages, LAMBDA img : PassesFilter(img, filterSettings))

activeFilterCount ==
  (IF FilterActive(filterSettings.minWidth) THEN 1 ELSE 0)
  + (IF FilterActive(filterSettings.minHeight) THEN 1 ELSE 0)

\* findIndex(img => img.id === selectedImageId) in filteredImages; the
\* positions are counted from 1 here, 0 is "not found" (-1 in the code)
FindIndex(list, id) ==
  IF \E k \in 1..Len(list) : list[k] = id
  THEN CHOOSE k \in 1..Len(list) : list[k] = id /\ \A j \in 1..(k-1) : list[j] # id
  ELSE 0

\* selectedImage?.id: the selected image when it is among the images
selectedImage ==
  IF selectedImageId # <<>> /\ FindIndex(appImages, selectedImageId[1]) # 0
  THEN selectedImageId ELSE <<>>

\* selectImage of useAppState: the id becomes the selected id
selectImage(id) == <<id>>

\* an event handler committed a render; what it leaves alone
Committed(changed) ==
  /\ ~effectsPending
  /\ effectsPending' = TRUE
  /\ changed
  /\ UNCHANGED <<batchVars, appOutputSettings, engine>>

\* a thumbnail of the image list is clicked
SelectImage ==
  \E k \in 1..Len(appImages) :
     Committed(/\ selectedImageId' = selectImage(appImages[k])
               /\ UNCHANGED <<appImages, resizeTargets, filterSettings,
                              appResizeSettings, lastSettingsRef, lastImageIdRef>>)

\* lines 110-116
handlePrevious ==
  LET index == FindIndex(filteredImages, selectedImageId[1]) IN
  /\ selectedImageId # <<>>
  /\ Committed(/\ selectedImageId' = IF index > 1 THEN selectImage(filteredImages[index - 1])
                                     ELSE selectedImageId
               /\ UNCHANGED <<appImages, resizeTargets, filterSettings,
                              appResizeSettings, lastSettingsRef, lastImageIdRef>>)

\* lines 118-124; an index of -1 passes the test when the list is not empty
handleNext ==
  LET index == FindIndex(filteredImages, selectedImageId[1]) IN
  /\ selectedImageId # <<>>
  /\ Committed(/\ selectedImageId' = IF index < Len(filteredImages)
                                     THEN selectImage(filteredImages[index + 1])
                                     ELSE selectedImageId
               /\ UNCHANGED <<appImages, resizeTargets, filterSettings,
                              appResizeSettings, lastSettingsRef, lastImageIdRef>>)

\* lines 128-132: removeImage(selectedImageId)
handleDelete ==
  /\ selectedImageId # <<>>
  /\ Committed(/\ appImages' = SelectSeq(appImages, LAMBDA img : img # selectedImageId[1])
               /\ UNCHANGED <<resizeTargets, filterSettings, selectedImageId,
                              appResizeSettings, lastSettingsRef, lastImageIdRef>>)

\* handleInputChange of the filter panel
handleInputChange ==
  \E field \in {"minWidth", "minHeight"}, value \in FilterInputs :
     Committed(/\ filterSettings' = [filterSettings EXCEPT ![field] = value]
               /\ UNCHANGED <<appImages, resizeTargets, selectedImageId,
                              appResizeSettings, lastSettingsRef, lastImageIdRef>>)

resetFilters ==
  Committed(/\ filterSettings' = [minWidth |-> <<>>, minHeight |-> <<>>]
            /\ UNCHANGED <<appImages, resizeTargets, selectedImageId,
                           appResizeSettings, lastSettingsRef, lastImageIdRef>>)

\* useResizeScaling lines 24-31
setResizeSettings ==
  \E settings \in UserResizeSettings :
     Committed(/\ appResizeSettings' = settings
               /\ lastSettingsRef' = settings
               /\ UNCHANGED <<appImages, resizeTargets, filterSettings,
                              selectedImageId, lastImageIdRef>>)

\* mutant: loading settings for an image also remembers them
resetResizeSettingsRemembers ==
  LET loaded == IF selectedImage = <<>> THEN defaultSettings
                ELSE IF resizeTargets[selectedImage[1]] # <<>>
                THEN resizeTargets[selectedImage[1]][1] ELSE lastSettingsRef
  IN /\ appResizeSettings' = loaded
     /\ lastSettingsRef' = loaded

\* useResizeScaling lines 34-47, for the selected image of the render
resetResizeSettings ==
  /\ appResizeSettings' =
        IF selectedImage = <<>> THEN defaultSettings
        ELSE IF resizeTargets[selectedImage[1]] # <<>>
        THEN resizeTargets[selectedImage[1]][1] ELSE lastSettingsRef
  /\ UNCHANGED lastSettingsRef

\* useResizeScaling lines 53-59: the effect on selectedImage
ResizeScalingEffect ==
  IF selectedImage # lastImageIdRef
  THEN lastImageIdRef' = selectedImage /\ resetResizeSettings
  ELSE UNCHANGED <<lastImageIdRef, appResizeSettings, lastSettingsRef>>

\* mutant: only a missing selection is replaced
SelectionEffectMissingOnly ==
  selectedImageId' =
    IF filteredImages # <<>> /\ selectedImageId = <<>>
    THEN selectImage(filteredImages[1]) ELSE selectedImageId

\* CropifyApp lines 74-83: the effect on filteredImages and selectedImageId
SelectionEffect ==
  selectedImageId' =
    IF filteredImages # <<>> /\ selectedImageId # <<>>
    THEN IF FindIndex(filteredImages, selectedImageId[1]) # 0
         THEN selectedImageId ELSE selectImage(filteredImages[1])
    ELSE IF filteredImages # <<>> THEN selectImage(filteredImages[1])
    ELSE selectedImageId

\* CropifyApp lines 100-105: updateImage(selectedImageId, {resizeTarget:
\* resizeSettings}); updateImage changes the image of that id if there is one
AutoSaveEffect ==
  resizeTargets' =
    IF selectedImage # <<>>
    THEN [resizeTargets EXCEPT ![selectedImage[1]] = <<appResizeSettings>>]
    ELSE resizeTargets

\* the effects of the committed render run, in the order of their hooks
RunEffects ==
  /\ effectsPending
  /\ ResizeScalingEffect
  /\ SelectionEffect
  /\ AutoSaveEffect
  /\ effectsPending' =
        (<<appResizeSettings', selectedImageId', resizeTargets'>>
           # <<appResizeSettings, selectedImageId, resizeTargets>>)
  /\ UNCHANGED <<appImages, filterSettings>>
  /\ UNCHANGED <<batchVars, appOutputSettings, engine>>

AppNext ==
  \/ SelectImage
  \/ handlePrevious
  \/ handleNext
  \/ handleDelete
  \/ handleInputChange
  \/ resetFilters
  \/ setResizeSettings
  \/ RunEffects

AppSpec == Init /\ [][AppNext]_vars

\* ================================================================== claims
StatusCount(st) == Cardinality({ i \in 1..Len(tasks) : tasks[i].status = st })

InFlightRuns == { r \in 1..Len(runs) : InFlight(r) }

\* this step is a call of the handler `name`
Called(name) == op' = name /\ calls' = calls + 1

\* this step resumes the processImage of run r at its pending await
Resumes(r) == Len(runs') = Len(runs) /\ runs'[r] # runs[r]

\* C1: at most one processImage invocation is in flight at any moment, so at
\* most one task has status processing
C1_SingleWorker ==
  /\ Cardinality(InFlightRuns) <= 1
  /\ StatusCount(PROCESSING) <= 1

\* C2: every status change of a task of the list is pending->processing,
\* processing->completed, processing->failed, processing->cancelled, or
\* failed->pending made by an explicit retry
AllowedChanges ==
  { <<PENDING, PROCESSING>>, <<PROCESSING, COMPLETED>>, <<PROCESSING, FAILED>>,
    <<PROCESSING, CANCELLED>> }

C2_StatusChanges ==
  [][\A i \in 1..Len(tasks), j \in 1..Len(tasks') :
       (tasks[i].id = tasks'[j].id /\ tasks[i].status # tasks'[j].status) =>
          \/ <<tasks[i].status, tasks'[j].status>> \in AllowedChanges
          \/ /\ tasks[i].status = FAILED /\ tasks'[j].status = PENDING
             /\ Called("retryFailed")]_vars

\* C3: within one run, the task at position j of the run's list enters
\* processing only after the run has brought every task at an earlier
\* position to a terminal status; while no pause or cancel was ever issued
\* the list shows each of those earlier tasks with a terminal status
C3_InListOrder ==
  \A r \in InFlightRuns : \A i \in 1..(runs[r].idx - 1) :
     /\ i \in runs[r].terminated
     /\ phase = "fresh" =>
           \E k \in 1..Len(tasks) :
              /\ tasks[k].id = runs[r].pendingTasks[i].id
              /\ tasks[k].status \in Terminal

C3_Witness ==
  /\ phase = "fresh"
  /\ \E r \in InFlightRuns : runs[r].idx = 2 /\ runs[r].terminated = {1}

\* C4: with no pause and no cancel issued, a finished batch has exactly the
\* tasks whose processing threw marked failed, and every other task completed:
\* a failure does not stop the later tasks
C4_FailureIsolation ==
  (phase = "fresh" /\ runs = <<>>) =>
     \A i \in 1..Len(tasks) :
        IF tasks[i].id \in failLog
        THEN tasks[i].status = FAILED
        ELSE tasks[i].status = COMPLETED

C4_Witness ==
  /\ phase = "fresh" /\ runs = <<>>
  /\ Len(tasks) = NumImages
  /\ tasks[1].status = FAILED /\ tasks[1].error = "load"
  /\ \A i \in 2..Len(tasks) : tasks[i].status = COMPLETED

\* C5: after pauseBatch or cancelBatch, and until the next start call, no
\* task changes to status processing
C5_NoStartAfterStop ==
  [][phase' \in {"paused", "cancelled"} =>
       \A j \in 1..Len(tasks') :
          tasks'[j].status = PROCESSING =>
             \E i \in 1..Len(tasks) :
                tasks[i].id = tasks'[j].id /\ tasks[i].status = PROCESSING]_vars

C5_Witness ==
  /\ phase = "paused"
  /\ op = "DelayResolve"
  /\ \E i \in 1..Len(tasks) : tasks[i].status = PENDING

\* C6 as claimed: a task that is processing when pauseBatch aborts the token
\* ends cancelled, whichever await (load, engine, conversion) was pending
C6_AlwaysCancelled ==
  [][\A r \in 1..Len(runs) :
       (InFlight(r) /\ runs[r].signal \in aborted /\ Resumes(r)) =>
          \A i \in 1..Len(tasks') :
             tasks'[i].id = Current(r).id => tasks'[i].status = CANCELLED]_vars

\* C6 as amended: when the abort came while the image load or the engine call
\* was pending, the task ends cancelled, or failed when that step itself
\* rejects; it never ends completed and never goes on to the next stage.
\* When the abort came during the final conversion the task ends completed,
\* or failed when the conversion rejects.
C6_CancelledBeforeConvert ==
  [][\A r \in 1..Len(runs) :
       (InFlight(r) /\ runs[r].signal \in aborted /\ Resumes(r)) =>
          /\ runs'[r].pc = "delay"
          /\ \A i \in 1..Len(tasks') :
                tasks'[i].id = Current(r).id =>
                   \/ tasks'[i].status = FAILED /\ tasks'[i].id \in failLog'
                   \/ tasks'[i].status =
                         IF runs[r].pc = "convert" THEN COMPLETED ELSE CANCELLED]_vars

C6_Witness ==
  /\ op = "EngineResolve"
  /\ phase = "paused"
  /\ \E i \in 1..Len(tasks) : tasks[i].status = CANCELLED /\ tasks[i].progress = 75

\* C7: pauseBatch leaves the task list as it is (same tasks, same order, every
\* completed task with its result); it only aborts the token and clears the
\* two processing flags
C7_PauseKeepsTasks ==
  [][Called("pauseBatch") =>
       /\ tasks' = tasks
       /\ runs' = runs
       /\ abortControllerRef' = abortControllerRef
       /\ aborted' = Abort
       /\ isProcessing' = FALSE
       /\ processingRef' = FALSE]_vars

C7_Witness ==
  /\ op = "pauseBatch"
  /\ StatusCount(COMPLETED) >= 1
  /\ StatusCount(PROCESSING) >= 1
  /\ \E i \in 1..Len(tasks) : tasks[i].status = COMPLETED /\ tasks[i].processedBlob # NoBlob

\* C8: after cancelBatch the task list is empty and stays empty until the next
\* start call, also when the cancelled run's in-flight task resolves
C8_CancelledStaysEmpty == phase = "cancelled" => tasks = <<>>

C8_Witness ==
  /\ phase = "cancelled"
  /\ op \in {"LoadResolve", "EngineResolve", "ConvertResolve"}

\* C9: a completed task stays in the list, completed and with its result,
\* through every step that is not a cancelBatch call
C9_CompletedStays ==
  [][~Called("cancelBatch") =>
       \A i \in 1..Len(tasks) :
          tasks[i].status = COMPLETED =>
             \E j \in 1..Len(tasks') :
                /\ tasks'[j].id = tasks[i].id
                /\ tasks'[j].status = COMPLETED
                /\ tasks'[j].processedBlob = tasks[i].processedBlob]_vars

\* C10: when every task of the list is a completed crop task, startBatch over
\* the same images leaves the list as it is (ids, statuses, results) and the
\* run it starts has nothing to process
AllCompletedCrop ==
  /\ tasks # <<>>
  /\ \A i \in 1..Len(tasks) : tasks[i].status = COMPLETED /\ tasks[i].processType = "crop"

TaskImages == [i \in 1..Len(tasks) |-> tasks[i].imageId]

C10_RebatchIdempotent ==
  /\ [][(/\ Called("startBatch")
         /\ AllCompletedCrop
         /\ Len(runs') > Len(runs) => runs'[Len(runs')].images = TaskImages) =>
          /\ tasks' = tasks
          /\ Len(runs') > Len(runs) => runs'[Len(runs')].pendingTasks = <<>>]_vars
  /\ [](\A r \in 1..Len(runs) : runs[r].pendingTasks = <<>> => runs[r].pc = "start")

C10_Witness ==
  /\ op = "startBatch"
  /\ AllCompletedCrop
  /\ Len(tasks) = NumImages
  /\ runs # <<>>
  /\ runs[Len(runs)].pc = "start"
  /\ runs[Len(runs)].pendingTasks = <<>>
  /\ runs[Len(runs)].images = TaskImages

\* this step is an accepted call of the handler `name`: executeBatch went past
\* its guard and started a run
Accepted(name) == Called(name) /\ Len(runs') = Len(runs) + 1

\* the images the run started by this step was given
GivenImages == runs'[Len(runs')].images

\* C11: startResizeBatch over an image that already has a completed resize
\* task keeps that task unchanged (id, status, result) in the new list
C11_ResizeReusesCompleted ==
  [][Accepted("startResizeBatch") =>
       \A i \in 1..Len(tasks) :
          (/\ tasks[i].status = COMPLETED
           /\ tasks[i].processType = "resize"
           /\ HasImage(GivenImages, tasks[i].imageId)) =>
             \E j \in 1..Len(tasks') : tasks'[j] = tasks[i]]_vars

\* C12: retryFailed leaves every completed and every cancelled task of the
\* list as it is (status, result, parameters), here for the tasks of the
\* images the retry is given
C12_RetryOnlyFailed ==
  [][Accepted("retryFailed") =>
       \A i \in 1..Len(tasks) :
          (/\ tasks[i].status \in {COMPLETED, CANCELLED}
           /\ HasImage(GivenImages, tasks[i].imageId)) =>
             \E j \in 1..Len(tasks') : tasks'[j] = tasks[i]]_vars

\* C13: an accepted retryFailed puts every failed task of the images it is
\* given back to pending with the operation type and the parameters the task
\* had when it failed
C13_RetryKeepsOperation ==
  [][Accepted("retryFailed") =>
       \A i \in 1..Len(tasks) :
          (tasks[i].status = FAILED /\ HasImage(GivenImages, tasks[i].imageId)) =>
             \E j \in 1..Len(tasks') :
                /\ tasks'[j].imageId = tasks[i].imageId
                /\ tasks'[j].processType = tasks[i].processType
                /\ tasks'[j].resizeSettings = tasks[i].resizeSettings
                /\ tasks'[j].cropParams = tasks[i].cropParams
                /\ tasks'[j].status = PENDING]_vars

\* lines 234 and 250-253 as a property of a task
EffectiveParameters(task) ==
  /\ task.processType = "crop" =>
        IF ImageCropParams(task.imageId) # NoCropParams
        THEN task.cropParams = ImageCropParams(task.imageId)
        ELSE task.cropParams \in CropParamValues
  /\ task.processType = "resize" =>
        IF ImageScaleFactor(task.imageId) # 0
        THEN task.resizeSettings = <<ImageScaleFactor(task.imageId)>>
        ELSE \E sf \in ScaleFactors : task.resizeSettings = <<sf>>

C15_FieldsMatchStatus ==
  \A i \in 1..Len(tasks) :
     /\ tasks[i].error # NoError <=> tasks[i].status = FAILED
     /\ tasks[i].processedBlob # NoBlob <=> tasks[i].status = COMPLETED

\* the values and the growth of progress (lines 52-54, 73, 77, 99, 112)
ProgressInRange ==
  \A i \in 1..Len(tasks) :
     /\ tasks[i].progress \in 0..100
     /\ tasks[i].status = PROCESSING => tasks[i].progress \in {0, 25, 50, 75}
     /\ tasks[i].status = COMPLETED => tasks[i].progress = 100

ProgressGrows ==
  \A i \in 1..Len(tasks), j \in 1..Len(tasks') :
     (/\ tasks[i].id = tasks'[j].id
      /\ tasks[i].status = PROCESSING
      /\ tasks'[j].status = PROCESSING) => tasks'[j].progress >= tasks[i].progress

\* C16: the progress of a task lies in 0..100, is one of 0, 25, 50, 75 and
\* never decreases while the task is processing, and is 100 whenever the
\* task is completed
C16_ProgressMonotone == []ProgressInRange /\ [][ProgressGrows]_vars

\* this step ends the processImage invocation of run r (lines 110-132)
Ends(r) == InFlight(r) /\ Resumes(r) /\ runs'[r].pc = "delay"

ReportsOfStep ==
  /\ \A r \in 1..Len(runs) : \A i \in 1..Len(tasks') :
        (Ends(r) /\ tasks'[i].id = Current(r).id) =>
           /\ tasks'[i].status \in Terminal
           /\ onErrorCalls' = IF tasks'[i].status = FAILED
                              THEN <<tasks'[i].id>> ELSE <<>>
  /\ (\A r \in 1..Len(runs) : ~Ends(r)) => onErrorCalls' = <<>>

C18_RunsEnd ==
  /\ [][Len(runs') < Len(runs) =>
          (~isProcessing' /\ ~processingRef' /\ abortControllerRef' = 0)]_vars
  /\ (runs # <<>>) ~> (runs = <<>> /\ ~isProcessing)

C18_Witness ==
  /\ op = "DelayResolve"
  /\ runs = <<>>
  /\ ~isProcessing
  /\ StatusCount(COMPLETED) >= 1
  /\ StatusCount(FAILED) >= 1

\* C19: the task list holds at most one task per (imageId, processType) and
\* no two of its tasks share an id
C19_OneTaskPerImage ==
  \A i, j \in 1..Len(tasks) :
     i # j =>
        /\ tasks[i].id # tasks[j].id
        /\ ~(tasks[i].imageId = tasks[j].imageId /\ tasks[i].processType = tasks[j].processType)

C19_Witness ==
  /\ op = "startBatch"
  /\ phase = "resumed"
  /\ Len(tasks) = NumImages
  /\ Len(runs) = 2
  /\ \E i \in 1..Len(tasks) : tasks[i].status = COMPLETED
  /\ \E i \in 1..Len(tasks) : tasks[i].status = PENDING

\* the state right after the c-th handler call, an accepted startBatch made
\* after a pause
ResumedBy(c) ==
  /\ calls = c
  /\ op = "startBatch"
  /\ phase = "resumed"
  /\ runs # <<>>
  /\ runs[Len(runs)].pc = "start"

AllSettled == \A i \in 1..Len(tasks) : tasks[i].status \in {COMPLETED, FAILED}

\* C20: in a behaviour without cancelBatch, after a startBatch that follows a
\* pause, every pending await settling and no further handler call being
\* made, a state is reached in which every task of the list is completed or
\* failed
C20_ResumeFinishes ==
  \/ <>(op = "cancelBatch")
  \/ \A c \in 1..MaxCalls : [](ResumedBy(c) => <>(calls # c \/ AllSettled))

\* the scale factor a size is computed for: the image's own when it has one
FactorOf(call) ==
  IF call.imageScaleFactor # Undefined THEN call.imageScaleFactor[1] ELSE call.scaleFactor

\* n is the integer nearest to 10 * dim / factor, a tie counting upwards
Nearest(n, dim, factor) ==
  /\ 2 * n * factor - factor <= 20 * dim
  /\ 20 * dim < 2 * n * factor + factor

\* C23: for a positive scale factor (the image's own when it has one) the
\* computed size is round(width / factor) x round(height / factor); a
\* 3000 x 3000 source at factor 1.5 gives 2000 x 2000
C23_RoundedQuotient ==
  (engine.fn = "calculateNewSize" /\ FactorOf(engine) > 0) =>
     /\ Nearest(engine.out.width, engine.width, FactorOf(engine))
     /\ Nearest(engine.out.height, engine.height, FactorOf(engine))
     /\ (engine.width = 3000 /\ engine.height = 3000 /\ FactorOf(engine) = 15) =>
           engine.out = [width |-> 2000, height |-> 2000]

C23_Witness ==
  /\ engine.fn = "calculateNewSize"
  /\ engine.width = 3000 /\ engine.height = 3000
  /\ engine.imageScaleFactor = <<15>> /\ engine.scaleFactor = 30
  /\ engine.out = [width |-> 2000, height |-> 2000]

\* C24: for a positive scale factor each computed dimension is at least 1
C24_AtLeastOne ==
  (engine.fn = "calculateNewSize" /\ FactorOf(engine) > 0) =>
     engine.out.width >= 1 /\ engine.out.height >= 1

\* C25: for a fixed source size a larger positive scale factor never gives a
\* larger width or height
C25_Monotonic ==
  (engine.fn = "calculateNewSize" /\ FactorOf(engine) > 0) =>
     \A typed \in TypedFactors :
        LET other == calculateNewSize(engine.width, engine.height, Undefined,
                                      scaleFactorInput(typed))
        IN scaleFactorInput(typed) > FactorOf(engine) =>
              /\ other.width <= engine.out.width
              /\ other.height <= engine.out.height

C25_Witness ==
  /\ engine.fn = "calculateNewSize"
  /\ engine.width = 3000 /\ engine.height = 100
  /\ FactorOf(engine) = 15
  /\ engine.out = [width |-> 2000, height |-> 67]
  /\ calculateNewSize(3000, 100, Undefined, 30) = [width |-> 1000, height |-> 33]

\* an enabled resize target is saved with the image
TargetEnabled(call) == call.resizeTarget # Undefined /\ call.resizeTarget[1].enabled

\* C21: when a crop task is processed for an image whose saved resize target
\* is enabled, the engine result has the target's width x height
C21_ResizeTargetApplied ==
  (engine.fn = "processImage" /\ TargetEnabled(engine)) =>
     engine.out.blob = [ width  |-> engine.resizeTarget[1].width,
                         height |-> engine.resizeTarget[1].height ]

\* C22: with rotation 0, no flip, border radius 0 and no enabled resize
\* target the output of cropImage is width x height, and for x = y = 0 it is
\* the region of that size at the source's origin drawn at the output origin
C22_PlainCrop ==
  ( /\ engine.fn = "cropImage"
    /\ engine.cropParams.rotation = 0
    /\ ~engine.cropParams.flipHorizontal /\ ~engine.cropParams.flipVertical
    /\ engine.cropParams.borderRadius = 0
    /\ ~TargetEnabled(engine) ) =>
     LET size == [ width |-> engine.cropParams.width,
                   height |-> engine.cropParams.height ]
     IN /\ engine.out.canvas = size
        /\ engine.out.blob = size
        /\ engine.out.clip = <<>>
        /\ (engine.cropParams.x = 0 /\ engine.cropParams.y = 0) =>
              /\ engine.out.source = [x |-> 0, y |-> 0, width |-> size.width,
                                      height |-> size.height]
              /\ engine.out.topLeft = [x |-> 0, y |-> 0]
              /\ engine.out.bottomRight = [x |-> 2 * size.width, y |-> 2 * size.height]

C22_Witness ==
  /\ engine.fn = "cropImage"
  /\ engine.cropParams = [ width |-> 200, height |-> 100, x |-> 0, y |-> 0,
                           rotation |-> 0, flipHorizontal |-> FALSE,
                           flipVertical |-> FALSE, borderRadius |-> 0 ]
  /\ engine.resizeTarget = <<[enabled |-> FALSE, width |-> 1024, height |-> 1024]>>
  /\ engine.out.blob = [width |-> 200, height |-> 100]
  /\ engine.out.topLeft = [x |-> 0, y |-> 0]

C29_LongerSideExact ==
  engine.fn = "generatePreview" =>
     Max(engine.out.width, engine.out.height)
       = Min(PreviewLimit, Max(engine.width, engine.height))

\* n is the whole part of dim * size / longer, or one less
WholePartOrLess(n, dim, size, longer) ==
  /\ n * longer <= dim * size
  /\ dim * size < (n + 2) * longer

\* C29: the preview's longer side is min(300, longer side of the crop) or one
\* pixel less and never above 300; a crop whose longer side is at most 300
\* keeps its size; otherwise each side is the whole part of the side times
\* 300 / longer side, or one less
C29_PreviewSize ==
  engine.fn = "generatePreview" =>
     LET longer == Max(engine.width, engine.height)
         size == Min(PreviewLimit, longer)
         made == Max(engine.out.width, engine.out.height)
     IN /\ made <= PreviewLimit
        /\ made \in {size, size - 1}
        /\ longer <= PreviewLimit =>
              engine.out = [width |-> engine.width, height |-> engine.height]
        /\ WholePartOrLess(engine.out.width, engine.width, size, longer)
        /\ WholePartOrLess(engine.out.height, engine.height, size, longer)

C29_Witness ==
  /\ engine.fn = "generatePreview"
  /\ engine.width = 562 /\ engine.height = 100
  /\ engine.out = [width |-> 299, height |-> 53]

\* C30: for borderRadius > 0 the radius of the clip path is
\* min(min(width, height) * borderRadius / 2, width / 2, height / 2), at most
\* half the shorter side; for borderRadius = 0 there is no clip
C30_ClipRadius ==
  engine.fn = "cropImage" =>
     LET shorter == Min(engine.cropParams.width, engine.cropParams.height)
         borderRadius == engine.cropParams.borderRadius
         clip == engine.out.clip
     IN IF borderRadius > 0
          THEN /\ clip # <<>>
               /\ clip[1] <= 100 * shorter
               /\ borderRadius <= 100 => clip[1] = shorter * borderRadius
               /\ borderRadius >= 100 => clip[1] = 100 * shorter
          ELSE clip = <<>>

C30_Witness ==
  /\ engine.fn = "cropImage"
  /\ engine.cropParams.width = 200 /\ engine.cropParams.height = 100
  /\ engine.cropParams.borderRadius = 150
  /\ engine.out.clip = <<10000>>

\* C27: the quality of the output settings is in the range of their format
\* (0..9 for png, 1..100 for jpg and webp) in every state, also right after
\* a change of format, and a quality handed to the final encode is in that
\* range (as a fraction of 100 for jpg and webp; none is handed for png)
C27_QualityInRange ==
  /\ appOutputSettings.quality \in QualityRange(appOutputSettings.format)
  /\ engine.fn = "convertBlobFormat" =>
        \A i \in 1..Len(engine.out.quality) :
           engine.out.quality[i] \in QualityRange(engine.settings.format)

C27_Witness ==
  /\ engine.fn = "convertBlobFormat"
  /\ appOutputSettings = [format |-> "png", quality |-> 9]
  /\ engine.out = [mimeType |-> "image/png", quality |-> Undefined]

\* the scale factor of a resize task is not positive
NonPositiveFactor(task) ==
  task.processType = "resize" /\ task.resizeSettings # NoResize /\ task.resizeSettings[1] <= 0

\* C26: no resize task whose effective scale factor is <= 0 is run to
\* completed: the engine call of such a task fails and the task is failed
C26_NonPositiveRejected ==
  /\ \A i \in 1..Len(tasks) : NonPositiveFactor(tasks[i]) => tasks[i].status # COMPLETED
  /\ \A r \in 1..Len(runs) :
        (runs[r].pc = "convert" => ~NonPositiveFactor(Current(r)))

C26_Witness ==
  \E i \in 1..Len(tasks) :
     /\ NonPositiveFactor(tasks[i])
     /\ tasks[i].status = FAILED
     /\ tasks[i].error = "engine"
     /\ op = "EngineResolve"

\* this step is a call of startBatch, startResizeBatch or retryFailed
StartCalled == Called("startBatch") \/ Called("startResizeBatch") \/ Called("retryFailed")

\* C32: a call of startBatch, startResizeBatch or retryFailed made while
\* isProcessing is true leaves the task list, the flags, the abort token and
\* the executing runs as they were
C32_StartWhileProcessing ==
  [][(StartCalled /\ isProcessing) =>
       UNCHANGED <<tasks, isProcessing, processingRef, abortControllerRef, aborted, runs>>]_vars

C32_Witness ==
  /\ op \in {"startBatch", "startResizeBatch", "retryFailed"}
  /\ Idle
  /\ isProcessing
  /\ \E r \in 1..Len(runs) : InFlight(r)
  /\ StatusCount(PROCESSING) = 1

\* this step ends the earlier of two executing runs, no pause or cancel
\* having been called since the later one was started
EarlierRunEnds ==
  /\ Len(runs) = 2
  /\ runs' = <<runs[2]>>
  /\ phase \in {"fresh", "resumed"}

\* C33: the cleanup at the end of an earlier, paused run leaves isProcessing
\* true, the processing flag set and the abort token in place for the later
\* run that is still executing
C33_CleanupSparesLaterRun ==
  [][(EarlierRunEnds /\ isProcessing) =>
       /\ isProcessing'
       /\ processingRef'
       /\ abortControllerRef' = abortControllerRef]_vars

\* the last accepted start call was a startBatch, its run has ended, and every
\* task of the list is completed
StartBatchDone ==
  /\ lastStart # <<>>
  /\ runs = <<>>
  /\ tasks # <<>>
  /\ \A i \in 1..Len(tasks) : tasks[i].status = COMPLETED

\* C34 as stated: after a startBatch run has finished with every task
\* completed, each task stores the effective parameters of that call: the
\* image's saved geometry or the geometry passed, and the output settings passed
C34_ParametersOfLatestCall ==
  StartBatchDone =>
     \A i \in 1..Len(tasks) :
        /\ tasks[i].cropParams =
              IF ImageCropParams(tasks[i].imageId) # NoCropParams
              THEN ImageCropParams(tasks[i].imageId) ELSE lastStart[1].cropParams
        /\ tasks[i].outputSettings = lastStart[1].outputSettings

\* the task stores the effective parameters of the call `given`
StoresParametersOf(task, given) ==
  /\ task.cropParams =
        IF ImageCropParams(task.imageId) # NoCropParams
        THEN ImageCropParams(task.imageId) ELSE given.cropParams
  /\ task.outputSettings = given.outputSettings

\* an accepted startBatch puts into the list, for each image, the completed
\* crop task the list held for it, unchanged, or a pending task with the
\* effective parameters of the call; no other step changes the geometry or
\* the output settings a task stores
ParametersOfStep ==
  /\ (Accepted("startBatch") \/ Accepted("retryFailed")) =>
        \A j \in 1..Len(tasks') :
           \/ \E i \in 1..Len(tasks) :
                 /\ tasks[i].status = COMPLETED
                 /\ tasks'[j] = tasks[i]
           \/ /\ tasks'[j].status = PENDING
              /\ StoresParametersOf(tasks'[j], lastStart'[1])
  /\ ~(\E name \in {"startBatch", "retryFailed", "startResizeBatch"} : Accepted(name)) =>
        \A j \in 1..Len(tasks') :
           \E i \in 1..Len(tasks) :
              /\ tasks[i].id = tasks'[j].id
              /\ tasks[i].cropParams = tasks'[j].cropParams
              /\ tasks[i].outputSettings = tasks'[j].outputSettings

\* C34: after a startBatch run has finished with every task completed, each
\* task the call made stores the effective parameters of that call, and each
\* task an earlier run had completed is the earlier task unchanged, with the
\* parameters it was completed with
C34_ReusedOrLatest == [][ParametersOfStep]_vars

C34_Witness ==
  /\ StartBatchDone
  /\ Len(tasks) = 2
  /\ lastStart[1].cropParams = "cpB"
  /\ \E i \in 1..Len(tasks) : tasks[i].imageId = 2 /\ tasks[i].cropParams = "cpA"
  /\ \E i \in 1..Len(tasks) : tasks[i].imageId = 1 /\ StoresParametersOf(tasks[i], lastStart[1])
  /\ op = "DelayResolve"

\* the sub-sequence of the images whose width is at least minWidth and whose
\* height is at least minHeight, a bound that is undefined or <= 0 excluding
\* nothing
AtLeastBounds ==
  SelectSeq(appImages, LAMBDA img :
    /\ FilterActive(filterSettings.minWidth) => ImageWidth(img) >= filterSettings.minWidth[1]
    /\ FilterActive(filterSettings.minHeight) => ImageHeight(img) >= filterSettings.minHeight[1])

\* C35: filteredImages is the sub-sequence of images, in order, whose width
\* is at least minWidth and whose height is at least minHeight (an image
\* whose dimension equals the bound is kept); with activeFilterCount 0 it is
\* images
C35_FilterKeepsAtLeast ==
  /\ filteredImages = AtLeastBounds
  /\ activeFilterCount = 0 => filteredImages = appImages

\* the id is the id of one of the filtered images
InFiltered(sel) == sel # <<>> /\ FindIndex(filteredImages, sel[1]) # 0

\* what a step of the editing view does to the selection
SelectionStep ==
  LET index == FindIndex(filteredImages, selectedImageId[1]) IN
  /\ (effectsPending /\ filteredImages # <<>>) =>
        /\ InFiltered(selectedImageId')
        /\ InFiltered(selectedImageId) => selectedImageId' = selectedImageId
        /\ ~InFiltered(selectedImageId) => selectedImageId' = <<filteredImages[1]>>
  /\ (handlePrevious \/ handleNext) =>
        selectedImageId' = selectedImageId \/ InFiltered(selectedImageId')
  /\ (handlePrevious /\ index = 1) => selectedImageId' = selectedImageId
  /\ (handleNext /\ index = Len(filteredImages)) => selectedImageId' = selectedImageId

\* C36: whenever filteredImages is non-empty, once the selection effect has
\* run the selected id is one of filteredImages (an absent or filtered-out
\* selection is replaced by the first filtered image), and previous/next
\* navigation selects only ids of filteredImages and does nothing at the
\* first and the last position
C36_SelectionInFiltered ==
  /\ []((~effectsPending /\ filteredImages # <<>>) => InFiltered(selectedImageId))
  /\ [][SelectionStep]_vars

\* the filter dropped the selected image and the effect selected the first
\* of the filtered images in its place
C36_Witness ==
  /\ lastImageIdRef # <<>> /\ lastImageIdRef # selectedImageId
  /\ FindIndex(appImages, lastImageIdRef[1]) # 0
  /\ ~InFiltered(lastImageIdRef)
  /\ InFiltered(selectedImageId)
  /\ selectedImageId = <<filteredImages[1]>>

\* what a step of the editing view does to resizeSettings and to the
\* remembered settings
ResizeSettingsStep ==
  /\ (effectsPending /\ selectedImage # lastImageIdRef) =>
        /\ selectedImage = <<>> => appResizeSettings' = defaultSettings
        /\ (selectedImage # <<>> /\ resizeTargets[selectedImage[1]] # <<>>) =>
              <<appResizeSettings'>> = resizeTargets[selectedImage[1]]
        /\ (selectedImage # <<>> /\ resizeTargets[selectedImage[1]] = <<>>) =>
              appResizeSettings' = lastSettingsRef
  /\ (effectsPending /\ selectedImage = lastImageIdRef) =>
        appResizeSettings' = appResizeSettings
  /\ effectsPending => lastSettingsRef' = lastSettingsRef
  /\ lastSettingsRef' # lastSettingsRef =>
        /\ setResizeSettings
        /\ lastSettingsRef' \in UserResizeSettings
        /\ appResizeSettings' = lastSettingsRef'

\* C37: when the selected image id changes, resizeSettings becomes the
\* image's saved resizeTarget if it has one, otherwise the value most recently
\* passed to setResizeSettings (the defaults if none was), and the defaults
\* when no image is selected; a re-render for the same image id never resets
\* resizeSettings, and loading settings does not change the remembered value
C37_ResizeSettingsOnSelection ==
  /\ lastSettingsRef = defaultSettings
  /\ [][ResizeSettingsStep]_vars

\* the saved settings of an image were loaded: they are shown although the
\* settings passed to setResizeSettings last are others
C37_Witness ==
  /\ ~effectsPending
  /\ selectedImage # <<>> /\ lastImageIdRef = selectedImage
  /\ appResizeSettings \in UserResizeSettings
  /\ lastSettingsRef \in UserResizeSettings
  /\ appResizeSettings # lastSettingsRef
  /\ resizeTargets[selectedImage[1]] = <<appResizeSettings>>

\* the geometry of the last cropImage or generatePreview call and what it
\* drew with
DrewWith ==
  IF engine.fn = "cropImage" THEN engine.out.drawing ELSE engine.drawing

\* the same call with borderRadius 0
DrewPlain ==
  LET plain == [engine.cropParams EXCEPT !.borderRadius = 0]
  IN IF engine.fn = "cropImage" THEN cropImage(plain, Undefined).drawing
     ELSE generatePreviewDrawing(plain)

\* C31: with borderRadius > 0 the clip path is established in untransformed
\* output coordinates and translate, rotate and flip are applied again, so
\* the transform at the draw call is the one used with borderRadius 0; the
\* stack of saved states is back at its initial depth when the drawing ends
C31_ClipThenSameTransform ==
  engine.fn \in {"cropImage", "generatePreview"} =>
    /\ engine.cropParams.borderRadius > 0 =>
          /\ DrewWith.clip # <<>>
          /\ DrewWith.clip[1].transform = IdentityMatrix
          /\ DrewWith.drawTransform = DrewPlain.drawTransform
          /\ DrewPlain.clip = <<>>
    /\ engine.fn = "cropImage" =>
          ApplyMatrix(DrewWith.drawTransform,
                      [x |-> -engine.cropParams.width, y |-> -engine.cropParams.height])
            = engine.out.topLeft
    /\ DrewWith.after.stack = <<>>
    /\ DrewWith.after.transform = IdentityMatrix
    /\ DrewWith.after.clip = <<>>

\* a rotated, flipped crop with round corners was drawn
C31_Witness ==
  /\ engine.fn = "cropImage"
  /\ engine.cropParams.borderRadius = 50
  /\ engine.cropParams.rotation = 90
  /\ engine.cropParams.flipHorizontal
  /\ engine.cropParams.width = 200 /\ engine.cropParams.height = 100
  /\ engine.out.drawing.drawTransform =
        [a |-> 0, b |-> -1, c |-> -1, d |-> 0, e |-> 200, f |-> 100]
  /\ engine.out.drawing.clip = <<[radius |-> 5000, transform |-> IdentityMatrix]>>

====
